---- MODULE Spec2Model ----
(***************************************************************************)
(* Model of server_embedded.py: estimate_memory(model_id) and the header   *)
(* extractor get_safetensor_metadata(client, url).                         *)
(*                                                                         *)
(* One behaviour is one call of estimate_memory.  Strings whose content    *)
(* the code inspects are sequences: a model id is a sequence of            *)
(* characters, a file path a sequence of name tokens, the first range      *)
(* response a sequence of bytes.  The registry is the environment: every   *)
(* outbound client.get draws its response (an exception, a status, a body) *)
(* from a finite set when the call is made.                                *)
(***************************************************************************)
EXTENDS Integers, Sequences, FiniteSets, TLC

VARIABLES
    pc,                \* position in estimate_memory
    model_id,          \* the argument, reassigned by line 52
    list_resp,         \* line 64: the exception or status of the listing request
    files,             \* line 68: the parsed listing
    safetensor_files,  \* lines 69/82: the candidate entries
    idx_resp,          \* line 78: the exception or status of the index request
    shard_files,       \* line 81: the set of file names the index names
    sf,                \* line 89: number of candidates the loop has finished
    header_size,       \* line 34: decoded length prefix of the current file
    total_params,      \* line 85
    total_bytes,       \* line 86
    dtype_counts,      \* line 87: insertion-ordered dict, a sequence of <<dtype, count>>
    metas,             \* values get_safetensor_metadata returned so far (line 91)
    trace,             \* every client.get issued so far, in order
    result             \* the value estimate_memory returns

vars == <<pc, model_id, list_resp, files, safetensor_files, idx_resp, shard_files, sf,
          header_size,
          total_params, total_bytes, dtype_counts, metas, trace, result>>

----------------------------------------------------------------------------
(* Bounds of the input sets *)

MaxIdLen == 2
MaxFiles == 3
MaxMapLen == 2

----------------------------------------------------------------------------
(* Generic helpers *)

Range(s) == {s[i] : i \in 1..Len(s)}

SeqsUpTo(S, n) == UNION {[1..k -> S] : k \in 0..n}

DistinctSeqsUpTo(S, n) ==
    {s \in SeqsUpTo(S, n) : \A i, j \in 1..Len(s) : i # j => s[i] # s[j]}

EndsWith(s, suffix) ==
    /\ Len(s) >= Len(suffix)
    /\ SubSeq(s, Len(s) - Len(suffix) + 1, Len(s)) = suffix

IsPrefix(s, t) == Len(s) <= Len(t) /\ SubSeq(t, 1, Len(s)) = s

----------------------------------------------------------------------------
(* Model identifiers: lines 47-54 *)

Denylist == {"<", ">", "\"", "'", ";", "&", "|"}

Whitespace == {" "}

\* the characters the code tells apart: the separator, whitespace, the
\* denylist; an id of separators stands for any id that passes validation
IdChars == {"/"} \cup Whitespace \cup Denylist

ModelIds == SeqsUpTo(IdChars, MaxIdLen)

RECURSIVE LStrip(_)
LStrip(s) ==
    IF s # <<>> /\ Head(s) \in Whitespace THEN LStrip(Tail(s)) ELSE s

RECURSIVE RStrip(_)
RStrip(s) ==
    IF s # <<>> /\ s[Len(s)] \in Whitespace
    THEN RStrip(SubSeq(s, 1, Len(s) - 1))
    ELSE s

Strip(s) == RStrip(LStrip(s))

ErrInvalidId == "Invalid model ID. Expected format: owner/model-name"
ErrInvalidChars == "Invalid characters in model ID"
ErrNotFound == "Model not found or inaccessible"
ErrNoWeightFiles == "No safetensors files found in model"
ErrUnparseable == "Could not parse model metadata"
ErrTimeout == "Request to HuggingFace timed out. Try again."
ErrFault == "Failed to fetch model info"

HasSeparator(id) == "/" \in Range(id)

HasDenylisted(id) == \E c \in Denylist : c \in Range(id)

\* a variant that leaves the denylist of line 53 out
ValidateId_NoDenylist(id) ==
    IF id = <<>> \/ ~HasSeparator(id)
    THEN [ok |-> FALSE, id |-> id, error |-> ErrInvalidId]
    ELSE [ok |-> TRUE, id |-> Strip(id), error |-> ""]

\* lines 48-54: the id after line 52 and the error returned, "" when none
ValidateId(id) ==
    IF id = <<>> \/ ~HasSeparator(id)
    THEN [ok |-> FALSE, id |-> id, error |-> ErrInvalidId]
    ELSE LET s == Strip(id) IN
         IF HasDenylisted(s)
         THEN [ok |-> FALSE, id |-> s, error |-> ErrInvalidChars]
         ELSE [ok |-> TRUE, id |-> s, error |-> ""]

----------------------------------------------------------------------------
(* File paths and URLs: lines 63, 69, 75, 77, 90 *)

Revision == "main"

Shard1 == <<"model-00001-of-00003", ".safetensors">>
Shard2 == <<"model-00002-of-00003", ".safetensors">>
Shard3 == <<"model-00003-of-00003", ".safetensors">>
IndexPath == <<"model", ".safetensors", ".index", ".json">>
ConfigPath == <<"config", ".json">>

ListedPaths == {Shard1, Shard2, Shard3, IndexPath, ConfigPath}

\* file names an index's weight_map may name
MapPaths == {Shard1, Shard2, ConfigPath}

WeightSuffix == <<".safetensors">>
IndexSuffix == <<"model", ".safetensors", ".index", ".json">>

\* line 69: f["path"].endswith(".safetensors")
IsSafetensor(f) == EndsWith(f.path, WeightSuffix)

\* line 75: f["path"].endswith("model.safetensors.index.json")
IsIndexFile(f) == EndsWith(f.path, IndexSuffix)

NoRange == <<>>

\* line 63
ApiUrl(id, revision) ==
    [endpoint |-> "tree", model |-> id, revision |-> revision, path |-> <<>>]

\* lines 77 and 90
ResolveUrl(id, revision, path) ==
    [endpoint |-> "resolve", model |-> id, revision |-> revision, path |-> path]

\* one client.get: the URL, the Range header as <<first, last>>, and, for the
\* first range request of a file, the length the response carried (-1: none)
Call(url, range, prefix) == [url |-> url, range |-> range, prefix |-> prefix]

----------------------------------------------------------------------------
(* What the registry may answer *)

Exceptions == {"timeout", "fault"}

Statuses == {200, 404}

Raises(e, c) == [exc |-> e, status |-> 0, content |-> c]

Answers(st, c) == [exc |-> "none", status |-> st, content |-> c]

\* listing bodies: not JSON (json() raises), non-empty JSON that is no list
\* of entries (f["path"] raises), a list of entries with distinct paths
NoListing == [t |-> "notjson", items |-> <<>>]

Listing(paths) == [t |-> "list", items |-> [i \in 1..Len(paths) |-> [path |-> paths[i]]]]

ListBodies ==
    {NoListing, [t |-> "other", items |-> <<>>]}
        \cup {Listing(p) : p \in DistinctSeqsUpTo(ListedPaths, MaxFiles)}

ListResponses ==
    {Raises(e, NoListing) : e \in Exceptions}
        \cup {Answers(st, NoListing) : st \in Statuses \ {200}}
        \cup {Answers(200, b) : b \in ListBodies}

\* index bodies: not JSON, JSON that is no object, an object with or without
\* a weight_map; values lists the weight_map's values, one per tensor name
NoIndex == [t |-> "notjson", has_map |-> FALSE, values |-> <<>>]

IndexBodies ==
    {NoIndex, [t |-> "other", has_map |-> FALSE, values |-> <<>>],
     [t |-> "obj", has_map |-> FALSE, values |-> <<>>]}
        \cup {[t |-> "obj", has_map |-> TRUE, values |-> v] :
                v \in SeqsUpTo(MapPaths, MaxMapLen)}

IndexResponses ==
    {Raises(e, NoIndex) : e \in Exceptions}
        \cup {Answers(st, NoIndex) : st \in Statuses \ {200}}
        \cup {Answers(200, b) : b \in IndexBodies}

\* a response without its entries: the exception raised, or the status and
\* the kind of body
OutcomeOf(resp) == [exc |-> resp.exc, status |-> resp.status, t |-> resp.content.t]

NoResp == [exc |-> "none", status |-> 0, t |-> ""]

\* first range response: 8 bytes holding 258 little-endian, or 7 bytes
GoodPrefix == <<2, 1, 0, 0, 0, 0, 0, 0>>
ShortPrefix == <<2, 1, 0, 0, 0, 0, 0>>

HeadResponses ==
    {Raises(e, <<>>) : e \in Exceptions}
        \cup {Answers(404, <<>>)}
        \cup {Answers(st, c) : st \in {200, 206}, c \in {GoodPrefix, ShortPrefix}}

\* header bodies.  A JSON value is "notjson", "null", "other" (a non-empty
\* list, say) or "obj" with its items in document order; a tensor entry is an
\* object with some of the keys dtype and shape, or "other"
Tensor(dtype, shape) ==
    [t |-> "obj", keys |-> {"dtype", "shape"}, dtype |-> dtype, shape |-> shape]

Bare == [t |-> "obj", keys |-> {}, dtype |-> "", shape |-> <<>>]

Scalar == [t |-> "other", keys |-> {}, dtype |-> "", shape |-> <<>>]

Item(k, info) == [key |-> k, info |-> info]

Json(t, items) == [t |-> t, items |-> items]

MetaNone == Json("none", <<>>)

HeaderA ==
    Json("obj", <<Item("__metadata__", Bare),
                  Item("w", Tensor("F16", <<2, 3>>)),
                  Item("b", Tensor("F16", <<>>))>>)

HeaderB ==
    Json("obj", <<Item("w", Tensor("F32", <<2>>)),
                  Item("q", Tensor("F4_X", <<3>>)),
                  Item("b", Bare)>>)

HeaderZero == Json("obj", <<Item("e", Tensor("F16", <<0, 5>>))>>)

HeaderEmpty == Json("obj", <<Item("__metadata__", Bare)>>)

HeaderBadEntry ==
    Json("obj", <<Item("w", Tensor("F16", <<2>>)), Item("x", Scalar)>>)

HeaderBodies ==
    {Json("notjson", <<>>), Json("null", <<>>), Json("other", <<>>),
     HeaderA, HeaderB, HeaderZero, HeaderEmpty, HeaderBadEntry}

BodyResponses ==
    {Raises(e, MetaNone) : e \in Exceptions}
        \cup {Answers(404, MetaNone)}
        \cup {Answers(st, b) : st \in {200, 206}, b \in HeaderBodies}

----------------------------------------------------------------------------
(* Header extractor: get_safetensor_metadata, lines 27-42 *)

\* lines 32 and 38: resp.status_code in (200, 206)
StatusOk(status) == status \in {200, 206}

RECURSIVE LittleEndian(_)
LittleEndian(bytes) ==
    IF bytes = <<>> THEN 0 ELSE Head(bytes) + 256 * LittleEndian(Tail(bytes))

\* line 34: struct.unpack("<Q", content) raises unless content has 8 bytes
Unpack(content) ==
    IF Len(content) = 8
    THEN [ok |-> TRUE, value |-> LittleEndian(content)]
    ELSE [ok |-> FALSE, value |-> 0]

\* lines 31-34 with the handler of line 41: the decoded header size, or not ok
HeadResult(resp) ==
    IF resp.exc # "none" THEN [ok |-> FALSE, value |-> 0]
    ELSE IF ~StatusOk(resp.status) THEN [ok |-> FALSE, value |-> 0]
    ELSE Unpack(resp.content)

\* a variant whose range ends one byte late
BodyRange_OneMore(size) == <<8, 8 + size>>

\* line 37: the Range header of the second request
BodyRange(size) == <<8, 8 + size - 1>>

\* line 40: json.loads raises on "notjson" and yields None on null
Loads(content) ==
    IF content.t \in {"notjson", "null"} THEN MetaNone ELSE content

\* lines 37-42: the value get_safetensor_metadata returns
BodyResult(resp) ==
    IF resp.exc # "none" THEN MetaNone
    ELSE IF ~StatusOk(resp.status) THEN MetaNone
    ELSE Loads(resp.content)

\* the length a first range response carries: -1 unless its status is 200 or
\* 206 and its body is 8 bytes
CarriedLength(resp) ==
    IF resp.exc = "none" /\ resp.status \in {200, 206} /\ Len(resp.content) = 8
    THEN LittleEndian(resp.content)
    ELSE -1

----------------------------------------------------------------------------
(* Aggregation: lines 20-24, 85-106 *)

DTYPE_SIZES ==
    ("F64" :> 8) @@ ("F32" :> 4) @@ ("BF16" :> 2) @@ ("F16" :> 2)
        @@ ("F8_E4M3" :> 1) @@ ("F8_E5M2" :> 1) @@ ("I64" :> 8) @@ ("I32" :> 4)
        @@ ("I16" :> 2) @@ ("I8" :> 1) @@ ("U8" :> 1) @@ ("BOOL" :> 1)

\* a variant with 2 bytes for a dtype outside the table
DtypeSize_Default2(dtype) ==
    IF dtype \in DOMAIN DTYPE_SIZES THEN DTYPE_SIZES[dtype] ELSE 2

\* line 104: DTYPE_SIZES.get(dtype, 4)
DtypeSize(dtype) ==
    IF dtype \in DOMAIN DTYPE_SIZES THEN DTYPE_SIZES[dtype] ELSE 4

\* lines 100-102
RECURSIVE Product(_)
Product(shape) ==
    IF shape = <<>> THEN 1 ELSE Head(shape) * Product(Tail(shape))

\* lines 98-99: tensor_info.get(key, default)
GetDtype(info) == IF "dtype" \in info.keys THEN info.dtype ELSE "F32"

GetShape(info) == IF "shape" \in info.keys THEN info.shape ELSE <<>>

\* a variant that stores the last count instead of adding it
AddCount_Overwrite(counts, dtype, params) ==
    IF \E i \in 1..Len(counts) : counts[i][1] = dtype
    THEN [i \in 1..Len(counts) |->
            IF counts[i][1] = dtype THEN <<dtype, params>> ELSE counts[i]]
    ELSE Append(counts, <<dtype, params>>)

\* line 106: dtype_counts[dtype] = dtype_counts.get(dtype, 0) + params
AddCount(counts, dtype, params) ==
    IF \E i \in 1..Len(counts) : counts[i][1] = dtype
    THEN [i \in 1..Len(counts) |->
            IF counts[i][1] = dtype
            THEN <<dtype, counts[i][2] + params>>
            ELSE counts[i]]
    ELSE Append(counts, <<dtype, params>>)

NoTotals ==
    [ok |-> TRUE, total_params |-> 0, total_bytes |-> 0, dtype_counts |-> <<>>]

\* lines 96-106 for one item of meta; ok turns FALSE where .get raises
AggregateRecord(acc, item) ==
    IF item.key = "__metadata__" THEN acc
    ELSE IF item.info.t # "obj" THEN [acc EXCEPT !.ok = FALSE]
    ELSE LET dtype == GetDtype(item.info)
             params == Product(GetShape(item.info))
         IN  [ok |-> TRUE,
              total_params |-> acc.total_params + params,
              total_bytes |-> acc.total_bytes + params * DtypeSize(dtype),
              dtype_counts |-> AddCount(acc.dtype_counts, dtype, params)]

RECURSIVE AggregateItems(_, _)
AggregateItems(acc, items) ==
    IF items = <<>> \/ ~acc.ok THEN acc
    ELSE AggregateItems(AggregateRecord(acc, Head(items)), Tail(items))

\* line 92: not meta
Falsy(meta) == meta.t = "none" \/ (meta.t = "obj" /\ meta.items = <<>>)

\* lines 92-106 for one file; meta.items() raises unless meta is an object
AggregateFile(acc, meta) ==
    IF Falsy(meta) THEN acc
    ELSE IF meta.t # "obj" THEN [acc EXCEPT !.ok = FALSE]
    ELSE AggregateItems(acc, meta.items)

----------------------------------------------------------------------------
(* Shard resolution: lines 79-82 *)

\* a variant that takes any answer for the index
IndexStatusOk_Any(status) == status \in {200, 404}

\* line 79: idx_resp.status_code == 200
IndexStatusOk(status) == status = 200

\* line 81: list(set(idx_data.get("weight_map", {}).values()))
ShardFiles(idx_data) == IF idx_data.has_map THEN Range(idx_data.values) ELSE {}

\* a variant that filters the weight files instead of the whole listing
ShardFilter_WeightsOnly(fs, names) ==
    SelectSeq(fs, LAMBDA f : IsSafetensor(f) /\ f.path \in names)

\* line 82: [f for f in files if f["path"] in shard_files]
ShardFilter(fs, names) == SelectSeq(fs, LAMBDA f : f.path \in names)

----------------------------------------------------------------------------
(* Results: lines 108-138 *)

RoundHalfEven(n, d) ==
    LET q == n \div d
        r == n % d
    IN  IF 2 * r > d \/ (2 * r = d /\ q % 2 = 1) THEN q + 1 ELSE q

Formatted(hundredths, unit) == [hundredths |-> hundredths, unit |-> unit]

\* lines 111-114 applied to num/den bytes: two decimals, in hundredths,
\* rounded as the format does on the exact quotient
fmt_size(num, den) ==
    IF num \div den >= 1024 * 1024 * 1024
    THEN Formatted(RoundHalfEven(num * 100, den * 1024 * 1024 * 1024), "GB")
    ELSE Formatted(RoundHalfEven(num * 100, den * 1024 * 1024), "MB")

\* lines 116-119
fmt_params(p) ==
    IF p >= 1000000000
    THEN Formatted(RoundHalfEven(p * 100, 1000000000), "B")
    ELSE Formatted(RoundHalfEven(p * 100, 1000000), "M")

\* line 125: max(dtype_counts, key=dtype_counts.get), the first key of the
\* largest count
MaxDtype(counts) ==
    counts[CHOOSE i \in 1..Len(counts) :
             /\ \A j \in 1..Len(counts) : counts[j][2] <= counts[i][2]
             /\ \A j \in 1..(i - 1) : counts[j][2] < counts[i][2]][1]

NoReport ==
    [model |-> <<>>,
     total_parameters |-> Formatted(0, ""),
     memory_required |-> Formatted(0, ""),
     current_dtype |-> "",
     recommended_vram |-> Formatted(0, ""),
     fp32 |-> Formatted(0, ""),
     fp16 |-> Formatted(0, ""),
     int8 |-> Formatted(0, ""),
     int4 |-> Formatted(0, "")]

\* lines 121-134
Report(id, params, bytes, counts) ==
    [model |-> id,
     total_parameters |-> fmt_params(params),
     memory_required |-> fmt_size(bytes, 1),
     current_dtype |-> MaxDtype(counts),
     recommended_vram |-> fmt_size(bytes * 12, 10),
     fp32 |-> fmt_size(params * 4, 1),
     fp16 |-> fmt_size(params * 2, 1),
     int8 |-> fmt_size(params, 1),
     int4 |-> fmt_size(params, 2)]

NoResult == [kind |-> "none", error |-> "", report |-> NoReport]

Error(msg) == [kind |-> "error", error |-> msg, report |-> NoReport]

Success(report) == [kind |-> "ok", error |-> "", report |-> report]

\* a variant with the handler of line 135 only: other faults leave the call
Recover_TimeoutOnly(exc) ==
    IF exc = "timeout" THEN Error(ErrTimeout)
    ELSE [kind |-> "raised", error |-> "", report |-> NoReport]

\* lines 135-138: what the two handlers return for an exception raised in the
\* try block
Recover(exc) ==
    IF exc = "timeout" THEN Error(ErrTimeout) ELSE Error(ErrFault)

\* a variant without the zero test of line 108
Outcome_NoZeroCheck(id, params, bytes, counts) ==
    IF counts = <<>> THEN Recover("fault")
    ELSE Success(Report(id, params, bytes, counts))

\* lines 108-134
Outcome(id, params, bytes, counts) ==
    IF params = 0 THEN Error(ErrUnparseable)
    ELSE IF counts = <<>> THEN Recover("fault")  \* max() of an empty dict raises
    ELSE Success(Report(id, params, bytes, counts))

----------------------------------------------------------------------------
(* The call *)

Init ==
    /\ pc = "validate"
    /\ model_id \in ModelIds
    /\ list_resp = NoResp
    /\ files = <<>>
    /\ safetensor_files = <<>>
    /\ idx_resp = NoResp
    /\ shard_files = {}
    /\ sf = 0
    /\ header_size = 0
    /\ total_params = 0
    /\ total_bytes = 0
    /\ dtype_counts = <<>>
    /\ metas = <<>>
    /\ trace = <<>>
    /\ result = NoResult

\* lines 89, 108: the next file, or the end of the loop
LoopPc(done, candidates) == IF done < Len(candidates) THEN "head" ELSE "finish"

\* lines 47-54
Validate ==
    /\ pc = "validate"
    /\ LET v == ValidateId(model_id)
       IN  /\ model_id' = v.id
           /\ pc' = IF v.ok THEN "list" ELSE "done"
           /\ result' = IF v.ok THEN result ELSE Error(v.error)
    /\ UNCHANGED <<list_resp, files, safetensor_files, idx_resp, shard_files,
                   sf, header_size, total_params, total_bytes, dtype_counts,
                   metas, trace>>

\* lines 61-75
ListFiles ==
    /\ pc = "list"
    /\ \E resp \in ListResponses :
        /\ trace' = Append(trace, Call(ApiUrl(model_id, Revision), NoRange, -1))
        /\ list_resp' = OutcomeOf(resp)
        /\ IF resp.exc # "none"
           THEN /\ pc' = "done"
                /\ result' = Recover(resp.exc)
                /\ UNCHANGED <<files, safetensor_files>>
           ELSE IF resp.status # 200
           THEN /\ pc' = "done"
                /\ result' = Error(ErrNotFound)
                /\ UNCHANGED <<files, safetensor_files>>
           ELSE IF resp.content.t # "list"
           THEN /\ pc' = "done"
                /\ result' = Recover("fault")
                /\ UNCHANGED <<files, safetensor_files>>
           ELSE LET fs == resp.content.items
                    cands == SelectSeq(fs, IsSafetensor)
                IN  /\ files' = fs
                    /\ safetensor_files' = cands
                    /\ IF cands = <<>>
                       THEN pc' = "done" /\ result' = Error(ErrNoWeightFiles)
                       ELSE /\ pc' = IF SelectSeq(fs, IsIndexFile) # <<>>
                                     THEN "index"
                                     ELSE LoopPc(0, cands)
                            /\ result' = result
    /\ UNCHANGED <<model_id, idx_resp, shard_files, sf, header_size,
                   total_params, total_bytes, dtype_counts, metas>>

\* lines 76-82
FetchIndex ==
    /\ pc = "index"
    /\ \E resp \in IndexResponses :
        LET index_files == SelectSeq(files, IsIndexFile)
            idx_url == ResolveUrl(model_id, Revision, index_files[1].path)
        IN  /\ trace' = Append(trace, Call(idx_url, NoRange, -1))
            /\ idx_resp' = OutcomeOf(resp)
            /\ IF resp.exc # "none"
               THEN /\ pc' = "done"
                    /\ result' = Recover(resp.exc)
                    /\ UNCHANGED <<safetensor_files, shard_files>>
               ELSE IF ~IndexStatusOk(resp.status)
               THEN /\ pc' = LoopPc(0, safetensor_files)
                    /\ UNCHANGED <<safetensor_files, shard_files, result>>
               ELSE IF resp.content.t # "obj"
               THEN /\ pc' = "done"
                    /\ result' = Recover("fault")
                    /\ UNCHANGED <<safetensor_files, shard_files>>
               ELSE LET names == ShardFiles(resp.content)
                        cands == ShardFilter(files, names)
                    IN  /\ shard_files' = names
                        /\ safetensor_files' = cands
                        /\ pc' = LoopPc(0, cands)
                        /\ result' = result
    /\ UNCHANGED <<model_id, list_resp, files, sf, header_size, total_params,
                   total_bytes, dtype_counts, metas>>

\* lines 89-91 and 31-34: the first range request of the next candidate
RangeHead ==
    /\ pc = "head"
    /\ \E resp \in HeadResponses :
        LET url == ResolveUrl(model_id, Revision, safetensor_files[sf + 1].path)
            h == HeadResult(resp)
        IN  /\ trace' = Append(trace, Call(url, <<0, 7>>, CarriedLength(resp)))
            /\ IF h.ok
               THEN /\ pc' = "body"
                    /\ header_size' = h.value
                    /\ UNCHANGED <<sf, metas>>
               ELSE /\ pc' = LoopPc(sf + 1, safetensor_files)
                    /\ header_size' = 0
                    /\ sf' = sf + 1
                    /\ metas' = Append(metas, MetaNone)
    /\ UNCHANGED <<model_id, list_resp, files, safetensor_files, idx_resp,
                   shard_files, total_params, total_bytes, dtype_counts, result>>

\* lines 37-42 and 92-106: the second range request, then the file's records
RangeBody ==
    /\ pc = "body"
    /\ \E resp \in BodyResponses :
        LET url == ResolveUrl(model_id, Revision, safetensor_files[sf + 1].path)
            meta == BodyResult(resp)
            acc == AggregateFile(
                     [ok |-> TRUE, total_params |-> total_params,
                      total_bytes |-> total_bytes,
                      dtype_counts |-> dtype_counts], meta)
        IN  /\ trace' = Append(trace, Call(url, BodyRange(header_size), -1))
            /\ metas' = Append(metas, meta)
            /\ header_size' = 0
            /\ total_params' = acc.total_params
            /\ total_bytes' = acc.total_bytes
            /\ dtype_counts' = acc.dtype_counts
            /\ IF acc.ok
               THEN /\ sf' = sf + 1
                    /\ pc' = LoopPc(sf + 1, safetensor_files)
                    /\ result' = result
               ELSE /\ sf' = sf
                    /\ pc' = "done"
                    /\ result' = Recover("fault")
    /\ UNCHANGED <<model_id, list_resp, files, safetensor_files, idx_resp,
                   shard_files>>

\* lines 108-134
Finish ==
    /\ pc = "finish"
    /\ pc' = "done"
    /\ result' = Outcome(model_id, total_params, total_bytes, dtype_counts)
    /\ UNCHANGED <<model_id, list_resp, files, safetensor_files, idx_resp,
                   shard_files, sf, header_size, total_params, total_bytes, dtype_counts,
                   metas, trace>>

Next ==
    \/ Validate
    \/ ListFiles
    \/ FetchIndex
    \/ RangeHead
    \/ RangeBody
    \/ Finish

Spec == Init /\ [][Next]_vars

\* every step is a blocking call with a 30 s timeout (line 61): a call that can
\* take its next step does take it
FairSpec == Spec /\ WF_vars(Next)

----------------------------------------------------------------------------
(* Vocabulary of the properties *)

Done == pc = "done"

PathsOf(entries) == [i \in 1..Len(entries) |-> entries[i].path]

\* the first range request of a file, its second, and the other two calls
IsHead(c) == c.url.endpoint = "resolve" /\ c.range = <<0, 7>>

IsBody(c) == c.url.endpoint = "resolve" /\ c.range # <<>> /\ c.range # <<0, 7>>

IsListCall(c) == c.url.endpoint = "tree"

IsIndexCall(c) == c.url.endpoint = "resolve" /\ c.range = <<>>

\* the files header extraction was invoked on, in order of invocation
Extracted ==
    LET heads == SelectSeq(trace, IsHead)
    IN  [i \in 1..Len(heads) |-> heads[i].url.path]

\* the listed paths whose last token is the weight-file extension
ListedWeights ==
    SelectSeq(PathsOf(files), LAMBDA p : p # <<>> /\ p[Len(p)] = ".safetensors")

ListingRetrieved ==
    list_resp.exc = "none" /\ list_resp.status = 200 /\ list_resp.t = "list"

IndexRequested == \E i \in 1..Len(trace) : IsIndexCall(trace[i])

IndexRetrieved ==
    IndexRequested /\ idx_resp.exc = "none" /\ idx_resp.status = 200
        /\ idx_resp.t = "obj"

\* the loop ran over every candidate and line 108 was reached
LoopCompleted ==
    \/ pc = "finish"
    \/ Done /\ result.kind = "ok"
    \/ Done /\ result.error = ErrUnparseable

\* element count and byte size of one tensor entry, as section 3 of the
\* design defines them
RECURSIVE ElementCount(_, _)
ElementCount(shape, n) ==
    IF n = 0 THEN 1 ELSE ElementCount(shape, n - 1) * shape[n]

BytesPerElement(dtype) ==
    IF dtype \in DOMAIN DTYPE_SIZES THEN DTYPE_SIZES[dtype] ELSE 4

EntryParams(info) ==
    IF "shape" \in info.keys THEN ElementCount(info.shape, Len(info.shape)) ELSE 1

EntryBytes(info) ==
    EntryParams(info) * (IF "dtype" \in info.keys THEN BytesPerElement(info.dtype) ELSE 4)

IsTensorItem(item) == item.key # "__metadata__"

\* a returned header that is a mapping of tensor entries
Readable(meta) ==
    /\ meta.t = "obj"
    /\ \A i \in 1..Len(meta.items) :
          IsTensorItem(meta.items[i]) => meta.items[i].info.t = "obj"

\* every tensor entry of every readable header returned so far
RECURSIVE Flatten(_)
Flatten(ms) ==
    IF ms = <<>> THEN <<>>
    ELSE (IF Readable(Head(ms))
          THEN SelectSeq(Head(ms).items, IsTensorItem)
          ELSE <<>>) \o Flatten(Tail(ms))

RECURSIVE SumParams(_)
SumParams(items) ==
    IF items = <<>> THEN 0
    ELSE EntryParams(Head(items).info) + SumParams(Tail(items))

RECURSIVE SumBytes(_)
SumBytes(items) ==
    IF items = <<>> THEN 0
    ELSE EntryBytes(Head(items).info) + SumBytes(Tail(items))

RECURSIVE SumCounts(_)
SumCounts(counts) ==
    IF counts = <<>> THEN 0 ELSE Head(counts)[2] + SumCounts(Tail(counts))

\* every header returned so far was skipped or aggregated to its end
NoneAborted == \A i \in 1..Len(metas) : Falsy(metas[i]) \/ Readable(metas[i])

----------------------------------------------------------------------------
(* C1 *)

InvalidId(id) ==
    id = <<>> \/ "/" \notin Range(id) \/ Range(id) \cap Denylist # {}

\* C1: a model id that is empty, has no "/" or holds a denylisted character
\* ends the call with an error result, and no outbound request has been
\* issued at any point of the call.  (Line 52 only removes outer whitespace,
\* so model_id is invalid exactly when the argument was.)
InvalidIdIssuesNoRequest ==
    InvalidId(model_id) =>
        /\ trace = <<>>
        /\ pc \in {"validate", "done"}
        /\ Done => result.kind = "error"

InvalidIdRejected ==
    /\ Done
    /\ HasSeparator(model_id)
    /\ Range(model_id) \cap Denylist # {}
    /\ result = Error(ErrInvalidChars)
    /\ trace = <<>>

----------------------------------------------------------------------------
(* C2 *)

NoDuplicates(s) == \A i, j \in 1..Len(s) : i # j => s[i] # s[j]

\* C2: once the index was retrieved, the candidates are exactly the listed
\* files the index names, each once; header extraction is invoked on them
\* only, in order, on all of them when the loop runs to its end; a listed
\* file the index does not name is never requested and never aggregated.
IndexNamesTheExtractedFiles ==
    IndexRetrieved =>
        /\ Range(PathsOf(safetensor_files)) = shard_files \cap Range(PathsOf(files))
        /\ NoDuplicates(PathsOf(safetensor_files))
        /\ IsPrefix(Extracted, PathsOf(safetensor_files))
        /\ LoopCompleted => Extracted = PathsOf(safetensor_files)
        /\ \A i \in 1..Len(trace) :
              (IsHead(trace[i]) \/ IsBody(trace[i])) => trace[i].url.path \in shard_files
        /\ Len(metas) <= Len(Extracted)

UnreferencedShardSkipped ==
    /\ Done
    /\ IndexRetrieved
    /\ result.kind = "ok"
    /\ \E i \in 1..Len(ListedWeights) : ListedWeights[i] \notin shard_files
    /\ Extracted # <<>>

----------------------------------------------------------------------------
(* C3 *)

IndexRaised == IndexRequested /\ idx_resp.exc # "none"

IndexBadStatus == IndexRequested /\ idx_resp.exc = "none" /\ idx_resp.status # 200

IndexUnparsable ==
    IndexRequested /\ idx_resp.exc = "none" /\ idx_resp.status = 200
        /\ idx_resp.t # "obj"

\* the request went on past the index request with every listed weight file
FallsBackToListing ==
    /\ PathsOf(safetensor_files) = ListedWeights
    /\ IsPrefix(Extracted, ListedWeights)
    /\ Done => Len(trace) > 2
    /\ LoopCompleted => Extracted = ListedWeights

----------------------------------------------------------------------------
(* C4 *)

HasNoTensor(meta) ==
    meta.t = "obj" /\ \A i \in 1..Len(meta.items) : ~IsTensorItem(meta.items[i])

\* no file matches, or every extraction failed or gave a header without
\* tensor entries
NothingUsable ==
    \/ ListingRetrieved /\ ListedWeights = <<>>
    \/ IndexRetrieved /\ safetensor_files = <<>>
    \/ /\ safetensor_files # <<>>
       /\ Len(metas) = Len(safetensor_files)
       /\ \A i \in 1..Len(metas) : metas[i] = MetaNone \/ HasNoTensor(metas[i])

\* C4: a success report is only returned with total_parameters > 0 taken
\* from at least one header that was read; when no file matches, or every
\* extraction fails or the headers read hold no tensor entry, the result is
\* the NoWeightFiles or the UnparseableMetadata error.
NoSuccessWithZeroTotal ==
    /\ result.kind = "ok" =>
          /\ total_params > 0
          /\ \E i \in 1..Len(metas) :
                Readable(metas[i]) /\ SumParams(Flatten(<<metas[i]>>)) > 0
    /\ (Done /\ NothingUsable) =>
          result \in {Error(ErrNoWeightFiles), Error(ErrUnparseable)}

NothingUsableReported ==
    /\ Done
    /\ Len(metas) = 2
    /\ metas[1] = MetaNone
    /\ metas[2] = HeaderEmpty
    /\ result = Error(ErrUnparseable)

----------------------------------------------------------------------------
(* C5 *)

\* C5: when no candidate is left after shard resolution, the result is the
\* NoWeightFiles error and header extraction was invoked on no file.
EmptyCandidatesGiveNoWeightFiles ==
    (Done /\ ((ListingRetrieved /\ ListedWeights = <<>>)
                \/ (IndexRetrieved /\ safetensor_files = <<>>))) =>
        /\ result = Error(ErrNoWeightFiles)
        /\ Extracted = <<>>

----------------------------------------------------------------------------
(* C6 *)

\* a header extraction that failed in the sense of C6: nothing was returned,
\* or what was returned is not a mapping of tensor entries
Unreadable(meta) == meta = MetaNone \/ ~Readable(meta)

\* C6: a header extraction that fails on one candidate does not fail the
\* request: the loop goes on over the remaining candidates, and when another
\* file contributes a non-zero count the result is a success report whose
\* totals are those of the files read.
FileFailureIsNotFatal ==
    (Done /\ \E i \in 1..Len(metas) : Unreadable(metas[i])) =>
        /\ result # Error(ErrFault)
        /\ Len(metas) = Len(safetensor_files)
        /\ SumParams(Flatten(metas)) > 0 =>
              /\ result.kind = "ok"
              /\ total_params = SumParams(Flatten(metas))
              /\ total_bytes = SumBytes(Flatten(metas))

----------------------------------------------------------------------------
(* C7 *)

Messages ==
    {ErrInvalidId, ErrInvalidChars, ErrNotFound, ErrNoWeightFiles, ErrUnparseable,
     ErrTimeout, ErrFault}

Structured ==
    \/ result.kind = "ok" /\ result.error = ""
    \/ result.kind = "error" /\ result.error \in Messages /\ result.report = NoReport

\* C7: every call returns, and what it returns is a success report or an
\* error result with a message, whatever was raised on the way.
AlwaysReturnsStructured ==
    /\ <>Done
    /\ [](Done => Structured)
    /\ [](~Done => result = NoResult)

FaultReported ==
    /\ Done
    /\ result = Error(ErrFault)
    /\ Len(metas) = 2
    /\ metas[2] = Json("other", <<>>)

----------------------------------------------------------------------------
(* C8 *)

Perms(n) == {p \in [1..n -> 1..n] : \A i, j \in 1..n : i # j => p[i] # p[j]}

RECURSIVE AggregateAll(_, _)
AggregateAll(acc, ms) ==
    IF ms = <<>> THEN acc ELSE AggregateAll(AggregateFile(acc, Head(ms)), Tail(ms))

\* C8: between two files and after the last one, aggregating the headers
\* read so far in any other order gives the same total_parameters,
\* total_bytes and per-dtype counts.
AggregationOrderIndependent ==
    (pc \in {"head", "finish"} /\ NoneAborted) =>
        \A p \in Perms(Len(metas)) :
            LET acc == AggregateAll(NoTotals, [i \in 1..Len(metas) |-> metas[p[i]]])
            IN  /\ acc.total_params = total_params
                /\ acc.total_bytes = total_bytes
                /\ Range(acc.dtype_counts) = Range(dtype_counts)

TwoHeadersAggregated ==
    /\ LoopCompleted
    /\ metas = <<HeaderB, HeaderA>>

----------------------------------------------------------------------------
(* C9 *)

\* C9: total_parameters is the sum, over the tensor entries of the headers
\* read, of the product of the shape (1 for an empty shape); total_bytes is
\* the sum of that count times the table's bytes per element, 4 for a dtype
\* outside the table; the per-dtype counts add up to total_parameters.
TotalsAreTheSums ==
    NoneAborted =>
        /\ total_params = SumParams(Flatten(metas))
        /\ total_bytes = SumBytes(Flatten(metas))
        /\ SumCounts(dtype_counts) = total_params

SumsOverTwoHeaders ==
    /\ Done
    /\ result.kind = "ok"
    /\ metas = <<HeaderA, HeaderB>>
    /\ total_params = 13
    /\ total_bytes = 38

----------------------------------------------------------------------------
(* C10 *)

SameCall(c, d) == c.url = d.url /\ c.range = d.range

\* C10: the calls of a request are one listing request, then at most one
\* index request, then per candidate in listing order the request for bytes
\* 0-7 followed, only if it brought a length N with status 200 or 206, by the
\* request for bytes 8..8+N-1; no call is made twice.
CallsAreSequential ==
    /\ pc \in {"index", "head", "body", "finish"} => trace # <<>>
    /\ (Done /\ ~InvalidId(model_id)) => trace # <<>>
    /\ \A i \in 1..Len(trace) :
          /\ IsListCall(trace[i]) <=> i = 1
          /\ IsIndexCall(trace[i]) => i = 2
          /\ IsBody(trace[i]) =>
                /\ i > 1
                /\ IsHead(trace[i - 1])
                /\ trace[i - 1].url = trace[i].url
                /\ trace[i - 1].prefix >= 0
                /\ trace[i].range = <<8, 8 + trace[i - 1].prefix - 1>>
          /\ (IsHead(trace[i]) /\ trace[i].prefix >= 0) =>
                IF i = Len(trace)
                THEN pc = "body"
                ELSE IsBody(trace[i + 1]) /\ trace[i + 1].url = trace[i].url
          /\ \A j \in 1..Len(trace) : i # j => ~SameCall(trace[i], trace[j])
    /\ IsPrefix(Extracted, PathsOf(safetensor_files))
    /\ \A i, j \in 1..Len(safetensor_files) :
          i < j => \E k, l \in 1..Len(files) :
                      /\ k < l
                      /\ files[k] = safetensor_files[i]
                      /\ files[l] = safetensor_files[j]
    /\ LoopCompleted => Extracted = PathsOf(safetensor_files)

FullSequenceOfCalls ==
    /\ Done
    /\ Len(trace) = 5
    /\ IsListCall(trace[1])
    /\ IsIndexCall(trace[2])
    /\ IsHead(trace[3]) /\ trace[3].prefix < 0
    /\ IsHead(trace[4]) /\ trace[4].prefix = 258
    /\ IsBody(trace[5]) /\ trace[5].range = <<8, 265>>

====
